---- MODULE Spec2Model ----
(***************************************************************************)
(* The kernel command-line subsystem of Asterinas:                         *)
(*   ostd/src/boot/cmdline.rs        descriptors, registry lookup, value   *)
(*                                   decoding, the setup callbacks         *)
(*   kernel/comps/cmdline/src/lib.rs the tokenizer, the parse loop of      *)
(*                                   KCmdlineArg::from, the entry point    *)
(*                                   init with its early/late dispatch     *)
(* Strings are sequences of one-character strings.  Option<T> is a         *)
(* sequence of length at most one: None is <<>>, Some(v) is <<v>>.         *)
(***************************************************************************)
EXTENDS Integers, Sequences, FiniteSets, TLC

VARIABLES
    cmdline,        \* boot_info().kernel_cmdline
    build,          \* which registry the kernel was linked with
    pc,             \* where the entry point init stands, or "panicked"
    invocations,    \* how often the component framework invokes init
    runs,           \* completed invocations of init
    tokens,         \* the items of the split_arg iterator
    consumed,       \* how many of them the parse loop has taken
    kcmdline_end,   \* KCmdlineArg::from: the local kcmdline_end
    result,         \* KCmdlineArg::from: the local result
    KCMDLINE,       \* the Once<KCmdlineArg> singleton
    early,          \* init: the early group still to call
    late,           \* init: the late group still to call
    slots,          \* the storage slot of each descriptor
    console,        \* diagnostics emitted so far (log::warn!, early_println!)
    queried,        \* arguments of the query_kernel_param calls so far
    calls           \* the call_setup calls so far

vars == <<cmdline, build, pc, invocations, runs, tokens, consumed,
          kcmdline_end, result, KCMDLINE, early, late, slots, console, queried,
          calls>>

----------------------------------------------------------------------------
(* Bounds of the model. *)

\* words of a command line
MaxWords == 3

\* characters of a command line given character by character
MaxChars == 5

\* invocations of init where it is invoked more than once
MaxRuns == 2

----------------------------------------------------------------------------
(* Option<T>. *)

None == <<>>

Some(v) == <<v>>

IsSome(o) == o # <<>>

Unwrap(o) == o[1]

----------------------------------------------------------------------------
(* Characters and strings. *)

IsWhitespace(c) == c \in {" ", "\t", "\n"}

Digits == <<"0", "1", "2", "3", "4", "5", "6", "7", "8", "9">>

IsDigit(c) == \E d \in 1..10 : Digits[d] = c

DigitValue(c) == (CHOOSE d \in 1..10 : Digits[d] = c) - 1

Contains(s, c) == \E i \in 1..Len(s) : s[i] = c

CountChar(s, c) == Cardinality({i \in 1..Len(s) : s[i] = c})

\* str::ends_with(char)
EndsWith(s, c) == Len(s) > 0 /\ s[Len(s)] = c

\* str::trim: strips the leading and the trailing whitespace
RECURSIVE TrimStart(_)
TrimStart(s) ==
    IF s # <<>> /\ IsWhitespace(Head(s)) THEN TrimStart(Tail(s)) ELSE s

RECURSIVE TrimEnd(_)
TrimEnd(s) ==
    IF s # <<>> /\ IsWhitespace(s[Len(s)])
    THEN TrimEnd(SubSeq(s, 1, Len(s) - 1))
    ELSE s

Trim(s) == TrimEnd(TrimStart(s))

RECURSIVE DecimalValue(_)
DecimalValue(s) ==
    IF s = <<>> THEN 0
    ELSE 10 * DecimalValue(SubSeq(s, 1, Len(s) - 1)) + DigitValue(s[Len(s)])

\* <u32 as FromStr>::from_str: an optional '+', then one or more decimal
\* digits; anything else is an Err, here None.  (The values of the model
\* have one digit, far from the overflow that is an Err as well.)
ParseU32(s) ==
    LET body == IF s # <<>> /\ Head(s) = "+" THEN Tail(s) ELSE s
    IN  IF /\ body # <<>>
           /\ \A i \in 1..Len(body) : IsDigit(body[i])
        THEN Some(DecimalValue(body))
        ELSE None

\* <String as FromStr>::from_str never fails
ParseString(s) == Some(s)

----------------------------------------------------------------------------
(* ostd/src/boot/cmdline.rs: descriptors and the registry. *)

\* KernelParam::new.  The setup callback is the macro-generated closure:
\* shape says which macro made it ("once": define_kernel_param, "vec":
\* define_kernel_param_vec, "unimpl": define_kernel_param_unimpl) and ty is
\* the slot's value type T.
KernelParam(name, shape, ty, is_early, is_implemented) ==
    [name |-> name, shape |-> shape, ty |-> ty,
     early |-> is_early, implemented |-> is_implemented]

\* KernelParam::name
Name(kp) ==
    IF EndsWith(kp.name, "=")
    THEN SubSeq(kp.name, 1, Len(kp.name) - 1)
    ELSE kp.name

\* KernelParam::has_value
HasValue(kp) == EndsWith(kp.name, "=")

\* faulty variant: unimplemented descriptors are not found
QueryKernelParam_ImplementedOnly(reg, name) ==
    LET hits == {i \in 1..Len(reg) : Name(reg[i]) = name /\ reg[i].implemented}
    IN  IF hits = {} THEN None
        ELSE Some(CHOOSE i \in hits : \A j \in hits : i <= j)

\* faulty variant: the last descriptor with an equal name() is found
QueryKernelParam_LastMatch(reg, name) ==
    LET hits == {i \in 1..Len(reg) : Name(reg[i]) = name}
    IN  IF hits = {} THEN None
        ELSE Some(CHOOSE i \in hits : \A j \in hits : i >= j)

\* query_kernel_param: the index of the first descriptor whose name() is
\* equal to name, None when there is none
QueryKernelParam(reg, name) ==
    LET hits == {i \in 1..Len(reg) : Name(reg[i]) = name}
    IN  IF hits = {} THEN None
        ELSE Some(CHOOSE i \in hits : \A j \in hits : i <= j)

\* the early_println! of query_kernel_param
QueryWarning(reg, name) ==
    LET kp == QueryKernelParam(reg, name)
    IN  IF IsSome(kp) /\ ~reg[Unwrap(kp)].implemented
        THEN <<[kind |-> "unimplemented", text |-> name]>>
        ELSE <<>>

\* faulty variant: the flag type accepts a supplied value
FromValue_FlagTakesValue(ty, value) ==
    CASE ty = "KernelFlag" -> Some("KernelFlag")
      [] ty = "u32" ->
            IF value = None THEN None ELSE ParseU32(Trim(Unwrap(value)))
      [] ty = "String" ->
            IF value = None THEN None ELSE ParseString(Trim(Unwrap(value)))

\* FromKernelParam::from_value for the slot type ty
FromValue(ty, value) ==
    CASE ty = "KernelFlag" ->
            IF value = None THEN Some("KernelFlag") ELSE None
      [] ty = "u32" ->
            IF value = None THEN None ELSE ParseU32(Trim(Unwrap(value)))
      [] ty = "String" ->
            IF value = None THEN None ELSE ParseString(Trim(Unwrap(value)))

\* faulty variant: every decoded value overwrites the slot
Setup_LastWins(ty, value, slot) ==
    LET v == FromValue(ty, value)
    IN  IF IsSome(v) THEN v ELSE slot

\* define_kernel_param!: __setup, slot a spin::Once<T>
Setup(ty, value, slot) ==
    LET v == FromValue(ty, value)
    IN  IF IsSome(v) /\ slot = None THEN v ELSE slot

\* faulty variant: the decoded value is put in front
SetupVec_Front(ty, value, slot) ==
    LET v == FromValue(ty, value)
    IN  IF IsSome(v) THEN <<Unwrap(v)>> \o slot ELSE slot

\* define_kernel_param_vec!: __setup_vec, slot a Mutex<Vec<T>>
SetupVec(ty, value, slot) ==
    LET v == FromValue(ty, value)
    IN  IF IsSome(v) THEN Append(slot, Unwrap(v)) ELSE slot

\* define_kernel_param_unimpl!: __setup, slot the unit value
SetupUnimpl(value, slot) == slot

\* KernelParam::call_setup on descriptor i: the slots afterwards
CallSetup(reg, i, value, ss) ==
    LET kp == reg[i]
    IN  CASE kp.shape = "once"   -> [ss EXCEPT ![i] = Setup(kp.ty, value, @)]
          [] kp.shape = "vec"    -> [ss EXCEPT ![i] = SetupVec(kp.ty, value, @)]
          [] kp.shape = "unimpl" -> [ss EXCEPT ![i] = SetupUnimpl(value, @)]

----------------------------------------------------------------------------
(* kernel/comps/cmdline/src/lib.rs: the tokenizer. *)

\* split_arg: str::split with the stateful predicate.  i is the next
\* character, inside the predicate's inside_quotes, cur the token being
\* collected, acc the tokens already yielded.
\* faulty variant: the predicate does not look at quotes
RECURSIVE SplitFrom_QuoteBlind(_, _, _, _, _)
SplitFrom_QuoteBlind(input, i, inside, cur, acc) ==
    IF i > Len(input) THEN Append(acc, cur)
    ELSE IF IsWhitespace(input[i])
         THEN SplitFrom_QuoteBlind(input, i + 1, inside, <<>>, Append(acc, cur))
         ELSE SplitFrom_QuoteBlind(input, i + 1, inside, Append(cur, input[i]), acc)

\* faulty variant: whitespace in a quoted span is kept but ends the span
RECURSIVE SplitFrom_SpaceClosesQuote(_, _, _, _, _)
SplitFrom_SpaceClosesQuote(input, i, inside, cur, acc) ==
    IF i > Len(input) THEN Append(acc, cur)
    ELSE LET c == input[i]
             inside2 == IF c = "\"" THEN ~inside ELSE inside
         IN  IF ~inside2 /\ IsWhitespace(c)
             THEN SplitFrom_SpaceClosesQuote(input, i + 1, inside2, <<>>,
                                             Append(acc, cur))
             ELSE SplitFrom_SpaceClosesQuote(input, i + 1,
                                             inside2 /\ ~IsWhitespace(c),
                                             Append(cur, c), acc)

RECURSIVE SplitFrom(_, _, _, _, _)
SplitFrom(input, i, inside, cur, acc) ==
    IF i > Len(input) THEN Append(acc, cur)
    ELSE LET c == input[i]
             inside2 == IF c = "\"" THEN ~inside ELSE inside
         IN  IF ~inside2 /\ IsWhitespace(c)
             THEN SplitFrom(input, i + 1, inside2, <<>>, Append(acc, cur))
             ELSE SplitFrom(input, i + 1, inside2, Append(cur, c), acc)

\* faulty variant: empty tokens are not yielded
SplitArg_SkipEmpty(input) ==
    SelectSeq(SplitFrom(input, 1, FALSE, <<>>, <<>>), LAMBDA t : t # <<>>)

SplitArg(input) == SplitFrom(input, 1, FALSE, <<>>, <<>>)

\* str::split('='): the pieces between the '=' characters
RECURSIVE SplitEqFrom(_, _, _, _)
SplitEqFrom(arg, i, cur, acc) ==
    IF i > Len(arg) THEN Append(acc, cur)
    ELSE IF arg[i] = "="
         THEN SplitEqFrom(arg, i + 1, <<>>, Append(acc, cur))
         ELSE SplitEqFrom(arg, i + 1, Append(cur, arg[i]), acc)

SplitEq(arg) == SplitEqFrom(arg, 1, <<>>, <<>>)

----------------------------------------------------------------------------
(* kernel/comps/cmdline/src/lib.rs: KCmdlineArg::from, one loop iteration. *)

EmptyResult == [argv |-> <<>>, envp |-> <<>>, params |-> <<>>]

\* faulty variant: only the first = splits, the rest belongs to the value
EntryValue_SplitOnce(arg) ==
    LET arg_pattern == SplitEq(arg)
    IN  IF Len(arg_pattern) = 1 THEN Some(<<arg_pattern[1], None>>)
        ELSE Some(<<arg_pattern[1],
                    Some(SubSeq(arg, Len(arg_pattern[1]) + 2, Len(arg)))>>)

\* lines 163-174: Some(<<entry, value>>), None for the malformed argument
EntryValue(arg) ==
    LET arg_pattern == SplitEq(arg)
    IN  CASE Len(arg_pattern) = 1 -> Some(<<arg_pattern[1], None>>)
          [] Len(arg_pattern) = 2 -> Some(<<arg_pattern[1], Some(arg_pattern[2])>>)
          [] OTHER -> None

\* faulty variant: -- is an argument like any other
IsSeparator_Never(arg) == FALSE

\* line 157: arg == "--"
IsSeparator(arg) == arg = <<"-", "-">>

\* faulty variants: every unmatched entry is a module argument, or none is
IsModuleArg_Always(entry) == TRUE

IsModuleArg_Never(entry) == FALSE

\* line 181: entry.contains('.')
IsModuleArg(entry) == Contains(entry, ".")

\* faulty variant: the entry is lost
EnvpEntry_ValueOnly(entry, value) == value

\* line 188: entry.to_string() + "=" + value
EnvpEntry(entry, value) == entry \o <<"=">> \o value

\* line 193: entry.to_string()
ArgvEntry(entry) == entry

\* the character U+0000
NUL == "NUL"

\* lines 154, 188, 193: CString::new(s), Err(NulError) for a text that holds
\* a NUL character; the caller unwraps it
CStringNew(s) == IF Contains(s, NUL) THEN None ELSE Some(s)

\* faulty variant: a matched argument is forwarded to the init process too
Classify_MatchedForwarded(reg, entry, value, res) ==
    LET param == QueryKernelParam(reg, entry)
    IN  IF IsSome(param)
        THEN Some([res EXCEPT !.params = Append(@, <<Unwrap(param), value>>),
                              !.argv = Append(@, ArgvEntry(entry))])
        ELSE IF IsModuleArg(entry)
        THEN Some(res)
        ELSE IF IsSome(value)
        THEN Some([res EXCEPT !.envp = Append(@, EnvpEntry(entry, Unwrap(value)))])
        ELSE Some([res EXCEPT !.argv = Append(@, ArgvEntry(entry))])

\* faulty variant: an argument already forwarded is not forwarded again
Classify_NoDuplicates(reg, entry, value, res) ==
    LET param == QueryKernelParam(reg, entry)
        Has(seq, x) == \E k \in 1..Len(seq) : seq[k] = x
    IN  IF IsSome(param)
        THEN Some([res EXCEPT !.params = Append(@, <<Unwrap(param), value>>)])
        ELSE IF IsModuleArg(entry)
        THEN Some(res)
        ELSE IF IsSome(value)
        THEN IF Has(res.envp, EnvpEntry(entry, Unwrap(value))) THEN Some(res)
             ELSE Some([res EXCEPT !.envp = Append(@, EnvpEntry(entry, Unwrap(value)))])
        ELSE IF Has(res.argv, ArgvEntry(entry)) THEN Some(res)
             ELSE Some([res EXCEPT !.argv = Append(@, ArgvEntry(entry))])

\* lines 176-196: the result after an argument split into entry and value,
\* None when an unwrap of CString::new panics
Classify(reg, entry, value, res) ==
    LET param == QueryKernelParam(reg, entry)
    IN  IF IsSome(param)
        THEN Some([res EXCEPT !.params = Append(@, <<Unwrap(param), value>>)])
        ELSE IF IsModuleArg(entry)
        THEN Some(res)
        ELSE IF IsSome(value)
        THEN LET c == CStringNew(EnvpEntry(entry, Unwrap(value)))
             IN  IF c = None THEN None
                 ELSE Some([res EXCEPT !.envp = Append(@, Unwrap(c))])
        ELSE LET c == CStringNew(ArgvEntry(entry))
             IN  IF c = None THEN None
                 ELSE Some([res EXCEPT !.argv = Append(@, Unwrap(c))])

\* lines 149-197: the loop body on arg, as the next value of
\* <<kcmdline_end, result, console, queried>> and whether the body panicked
LoopBody(reg, arg, st) ==
    LET ended == st[1]
        res == st[2]
        con == st[3]
        qs == st[4]
        ev == EntryValue(arg)
    IN  IF ended
        THEN LET c == CStringNew(arg)
             IN  IF c = None THEN <<TRUE, res, con, qs, TRUE>>
                 ELSE <<TRUE, [res EXCEPT !.argv = Append(@, Unwrap(c))],
                        con, qs, FALSE>>
        ELSE IF IsSeparator(arg)
        THEN <<TRUE, res, con, qs, FALSE>>
        ELSE IF ev = None
        THEN <<FALSE, res, Append(con, [kind |-> "unparsable", text |-> arg]),
               qs, FALSE>>
        ELSE LET entry == Unwrap(ev)[1]
                 value == Unwrap(ev)[2]
                 next == Classify(reg, entry, value, res)
             IN  <<FALSE, IF next = None THEN res ELSE Unwrap(next),
                   con \o QueryWarning(reg, entry), Append(qs, entry),
                   next = None>>

\* init, lines 211-212: Iterator::partition by KernelParam::early
PartitionEarly(reg, params) == SelectSeq(params, LAMBDA p : reg[p[1]].early)

\* faulty variant: the late group is called last pair first
PartitionLate_Reversed(reg, params) ==
    LET lt == SelectSeq(params, LAMBDA p : ~reg[p[1]].early)
    IN  [k \in 1..Len(lt) |-> lt[Len(lt) + 1 - k]]

PartitionLate(reg, params) == SelectSeq(params, LAMBDA p : ~reg[p[1]].early)

----------------------------------------------------------------------------
(* The inputs: registries and command lines. *)

\* The registry: the descriptors the linker collected.  The early flags of
\* the implemented descriptors are inputs; define_kernel_param_unimpl!
\* fixes early = false.  Descriptor 5 has the name() of descriptor 1.
RegistryOf(e) ==
    << KernelParam(<<"f", "=">>, "once", "String", e, TRUE),
       KernelParam(<<"c", "=">>, "vec", "u32", ~e, TRUE),
       KernelParam(<<"d">>, "once", "KernelFlag", ~e, TRUE),
       KernelParam(<<"t">>, "unimpl", "unit", FALSE, FALSE),
       KernelParam(<<"f">>, "once", "KernelFlag", ~e, TRUE),
       KernelParam(<<"m", ".", "p">>, "once", "KernelFlag", e, TRUE) >>

RegistryA == RegistryOf(TRUE)

RegistryB == RegistryOf(FALSE)

\* the .kernel_param section of the build: kernel_params()
registry == IF build THEN RegistryA ELSE RegistryB

\* The words command lines are made of: those that name registered
\* parameters, with values that decode and values that do not
ParamWords ==
    { <<"f", "=", "1">>, <<"f", "=", "2">>, <<"f">>,
      <<"c", "=", "1">>, <<"c", "=", "2">>, <<"c", "=", "x">>,
      <<"d">>, <<"d", "=", "1">>,
      <<"t">>,
      <<"-", "-">> }

\* and those that show every way the parse loop forwards or drops a token
ForwardWords ==
    { <<"-", "-">>,
      <<"a">>, <<"a", "=", "1">>,
      <<"f", "=", "1", "=", "2">>, <<"a", "=", "\"", "=", "\"">>,
      <<"a", ".", "b", "=", "1">>, <<"a", ".", "b">>,
      <<"m", ".", "p">> }

RECURSIVE Join(_)
Join(ws) ==
    IF ws = <<>> THEN <<>>
    ELSE IF Len(ws) = 1 THEN ws[1]
    ELSE ws[1] \o <<" ">> \o Join(Tail(ws))

\* the command lines of at most MaxWords words of the vocabulary, a single
\* space between two words
LinesOver(vocabulary) ==
    {Join(ws) : ws \in UNION {[1..n -> vocabulary] : n \in 0..MaxWords}}

\* and those with a NUL character: forwarded bare, forwarded with a value,
\* and as the value of a registered parameter
NulWords ==
    { <<"-", "-">>,
      <<"a", NUL>>, <<"a", "=", NUL>>,
      <<"f", "=", NUL>> }

CmdLines ==
    LinesOver(ParamWords) \cup LinesOver(ForwardWords) \cup LinesOver(NulWords)

\* Command lines given character by character, for what the tokenizer does
\* with quotes and with whitespace: d and f are registered names
TextAlphabet == {"d", "f", " ", "\"", "-"}

\* longer lines: a quoted span between two words, an unclosed quote
\* before a --, a closed quote before a --, whitespace around a word
ExampleLines ==
    { <<"d", " ", "\"", "f", " ", "d", "\"", " ", "f">>,
      <<"d", " ", "\"", "f", " ", "-", "-", " ", "d">>,
      <<"\"", "f", "\"", " ", "-", "-", " ", "d">>,
      <<" ", "\t", "d", "\n", " ">> }

\* The words of the command lines on which init is invoked repeatedly
RerunWords ==
    { <<"f", "=", "1">>, <<"f", "=", "2">>,
      <<"c", "=", "1">>, <<"c", "=", "2">>,
      <<"d">>, <<"a">>,
      <<"-", "-">> }

RerunLines == LinesOver(RerunWords)

TextLines ==
    UNION {[1..n -> TextAlphabet] : n \in 0..MaxChars} \cup ExampleLines

----------------------------------------------------------------------------
(* The state machine. *)

\* the state before init is entered, for a framework that invokes it n
\* times
Constructed(n) ==
    /\ build \in BOOLEAN
    /\ pc = "idle"
    /\ invocations = n
    /\ runs = 0
    /\ tokens = <<>>
    /\ consumed = 0
    /\ kcmdline_end = FALSE
    /\ result = EmptyResult
    /\ KCMDLINE = None
    /\ early = <<>>
    /\ late = <<>>
    /\ slots = [i \in 1..Len(registry) |-> <<>>]
    /\ console = <<>>
    /\ queried = <<>>
    /\ calls = <<>>

\* a component's init runs once per boot
Init == cmdline \in CmdLines /\ Constructed(1)

InitText == cmdline \in TextLines /\ Constructed(1)

\* init invoked again and again by its caller
InitRerun == cmdline \in RerunLines /\ Constructed(MaxRuns)

\* faulty variant: call_once runs its closure whenever it is called
InitCall_Reparse ==
    /\ pc = "idle"
    /\ runs < invocations
    /\ pc' = "parse"
    /\ tokens' = SplitArg(cmdline)
    /\ consumed' = 0
    /\ kcmdline_end' = FALSE
    /\ result' = EmptyResult
    /\ UNCHANGED <<cmdline, build, invocations, runs, KCMDLINE, early,
                   late, slots, console, queried, calls>>

\* faulty variant: only the run that parses makes the setup calls
InitCall_DispatchOnce ==
    /\ pc = "idle"
    /\ runs < invocations
    /\ IF KCMDLINE = None
       THEN /\ pc' = "parse"
            /\ tokens' = SplitArg(cmdline)
            /\ consumed' = 0
            /\ kcmdline_end' = FALSE
            /\ result' = EmptyResult
       ELSE /\ pc' = "setup"
            /\ UNCHANGED <<tokens, consumed, kcmdline_end, result>>
    /\ UNCHANGED <<cmdline, build, invocations, runs, KCMDLINE, early,
                   late, slots, console, queried, calls>>

\* init is entered; KCMDLINE.call_once runs its closure only when the
\* singleton is not yet set (line 208)
InitCall ==
    /\ pc = "idle"
    /\ runs < invocations
    /\ IF KCMDLINE = None
       THEN /\ pc' = "parse"
            /\ tokens' = SplitArg(cmdline)
            /\ consumed' = 0
            /\ kcmdline_end' = FALSE
            /\ result' = EmptyResult
       ELSE /\ pc' = "partition"
            /\ UNCHANGED <<tokens, consumed, kcmdline_end, result>>
    /\ UNCHANGED <<cmdline, build, invocations, runs, KCMDLINE, early,
                   late, slots, console, queried, calls>>

\* one iteration of the parse loop (lines 149-197); a panic stops the
\* kernel in the middle of the iteration
ParseArg ==
    /\ pc = "parse"
    /\ consumed < Len(tokens)
    /\ LET nxt == LoopBody(registry, tokens[consumed + 1],
                           <<kcmdline_end, result, console, queried>>)
       IN  /\ kcmdline_end' = nxt[1]
           /\ result' = nxt[2]
           /\ console' = nxt[3]
           /\ queried' = nxt[4]
           /\ pc' = IF nxt[5] THEN "panicked" ELSE "parse"
           /\ consumed' = IF nxt[5] THEN consumed ELSE consumed + 1
    /\ UNCHANGED <<cmdline, build, invocations, runs, tokens, KCMDLINE,
                   early, late, slots, calls>>

\* the loop is over: from returns result, call_once stores it
ParseReturn ==
    /\ pc = "parse"
    /\ consumed = Len(tokens)
    /\ KCMDLINE' = Some(result)
    /\ pc' = "partition"
    /\ UNCHANGED <<cmdline, build, invocations, runs, tokens, consumed,
                   kcmdline_end, result, early, late, slots, console, queried,
                   calls>>

\* lines 210-212
Partition ==
    /\ pc = "partition"
    /\ early' = PartitionEarly(registry, Unwrap(KCMDLINE).params)
    /\ late' = PartitionLate(registry, Unwrap(KCMDLINE).params)
    /\ pc' = "setup"
    /\ UNCHANGED <<cmdline, build, invocations, runs, tokens, consumed,
                   kcmdline_end, result, KCMDLINE, slots, console, queried,
                   calls>>

\* the state after call_setup on the pair p
AfterCall(p) ==
    /\ slots' = CallSetup(registry, p[1], p[2], slots)
    /\ calls' = Append(calls, [run |-> runs + 1, param |-> p[1], value |-> p[2]])

\* lines 214-216: the next call of the early group
CallSetupEarly ==
    /\ pc = "setup"
    /\ early # <<>>
    /\ AfterCall(Head(early))
    /\ early' = Tail(early)
    /\ UNCHANGED <<cmdline, build, pc, runs, tokens, consumed, kcmdline_end, result,
                   KCMDLINE, late, console, queried,
                   invocations>>

\* faulty variant: the late group does not wait for the early group
CallSetupLate_NoWait ==
    /\ pc = "setup"
    /\ late # <<>>
    /\ AfterCall(Head(late))
    /\ late' = Tail(late)
    /\ UNCHANGED <<cmdline, build, pc, runs, tokens, consumed, kcmdline_end, result,
                   KCMDLINE, early, console, queried,
                   invocations>>

\* lines 217-218: the next call of the late group, once the early group is
\* exhausted
CallSetupLate ==
    /\ pc = "setup"
    /\ early = <<>>
    /\ late # <<>>
    /\ AfterCall(Head(late))
    /\ late' = Tail(late)
    /\ UNCHANGED <<cmdline, build, pc, runs, tokens, consumed, kcmdline_end, result,
                   KCMDLINE, early, console, queried,
                   invocations>>

\* line 220: init returns Ok(())
InitReturn ==
    /\ pc = "setup"
    /\ early = <<>>
    /\ late = <<>>
    /\ pc' = "idle"
    /\ runs' = runs + 1
    /\ UNCHANGED <<cmdline, build, invocations, tokens, consumed, kcmdline_end,
                   result, KCMDLINE, early, late, slots, console, queried,
                   calls>>

Next ==
    \/ InitCall
    \/ ParseArg
    \/ ParseReturn
    \/ Partition
    \/ CallSetupEarly
    \/ CallSetupLate
    \/ InitReturn

Spec == Init /\ [][Next]_vars

\* the same program on the command lines given character by character
SpecText == InitText /\ [][Next]_vars

\* the same program with init invoked MaxRuns times
SpecRerun == InitRerun /\ [][Next]_vars

----------------------------------------------------------------------------
(* What the claims speak of, said in terms of the command line's text. *)

Separator == <<"-", "-">>

\* the tokens of the command line
Toks == SplitArg(cmdline)

\* how many of them the parse loop has consumed
Processed == consumed

\* the parse loop is about to consume a token
ParseStep == pc = "parse" /\ consumed < Len(tokens)

\* the token it is about to consume
Arg == tokens[consumed + 1]

\* a token equal to -- is among the consumed ones
SeparatorSeen == \E k \in 1..consumed : tokens[k] = Separator

\* the tokens before the first --
RECURSIVE KernelPart(_)
KernelPart(ts) ==
    IF ts = <<>> \/ Head(ts) = Separator THEN <<>>
    ELSE <<Head(ts)>> \o KernelPart(Tail(ts))

\* the text before the first = of a token (the whole token without one)
RECURSIVE EntryOf(_)
EntryOf(tok) ==
    IF tok = <<>> \/ Head(tok) = "=" THEN <<>>
    ELSE <<Head(tok)>> \o EntryOf(Tail(tok))

\* the text after the first = of a token, None without one
ValueOf(tok) ==
    IF Len(EntryOf(tok)) = Len(tok) THEN None
    ELSE Some(SubSeq(tok, Len(EntryOf(tok)) + 2, Len(tok)))

\* the descriptors whose normalized name is the entry
Matching(entry) == {i \in 1..Len(registry) : Name(registry[i]) = entry}

\* the token is an entry or an entry=value whose entry selects descriptor i
Selects(tok, i) ==
    /\ CountChar(tok, "=") <= 1
    /\ i \in Matching(EntryOf(tok))
    /\ \A j \in Matching(EntryOf(tok)) : i <= j

\* the decoded values of the occurrences of descriptor i before --, in
\* command-line order, the occurrences that fail to decode left out
RECURSIVE DecodedOf(_, _)
DecodedOf(i, ts) ==
    IF ts = <<>> THEN <<>>
    ELSE LET v == IF Selects(Head(ts), i)
                  THEN FromValue(registry[i].ty, ValueOf(Head(ts)))
                  ELSE None
         IN  v \o DecodedOf(i, Tail(ts))

Decoded(i) == DecodedOf(i, KernelPart(Toks))

\* what the slot of descriptor i holds after one dispatch, by the
\* documentation of the registration macros
ExpectedSlot(i) ==
    LET d == Decoded(i)
    IN  CASE registry[i].shape = "once" ->
                IF d = <<>> THEN None ELSE Some(d[1])
          [] registry[i].shape = "vec" -> d
          [] OTHER -> <<>>

IsEarly(i) == registry[i].early

\* the first dispatch is over
Dispatched == pc = "idle" /\ runs = 1

----------------------------------------------------------------------------
(* C1: in one run of init every call for a pair with an early descriptor   *)
(* comes before the first call for a pair with a late descriptor: no early *)
(* call follows a late one, the calls before a late call are exactly the   *)
(* recorded early pairs in the order recorded, and when the first late     *)
(* call has been made the slots of the early descriptors hold what the     *)
(* whole command line gives them, whatever the order of the tokens.        *)
C1_EarlyBeforeLate ==
    \A j \in 1..Len(calls) :
        ~IsEarly(calls[j].param) =>
            LET r == calls[j].run
                earlier == SelectSeq(SubSeq(calls, 1, j - 1),
                                     LAMBDA c : c.run = r /\ IsEarly(c.param))
                recorded == SelectSeq(Unwrap(KCMDLINE).params,
                                      LAMBDA p : IsEarly(p[1]))
            IN  /\ \A k \in (j + 1)..Len(calls) :
                       calls[k].run = r => ~IsEarly(calls[k].param)
                /\ Len(earlier) = Len(recorded)
                /\ \A k \in 1..Len(earlier) :
                       <<earlier[k].param, earlier[k].value>> = recorded[k]
                /\ (r = 1 /\ j = Len(calls)) =>
                       \A i \in 1..Len(registry) :
                           IsEarly(i) => slots[i] = ExpectedSlot(i)

\* a late pair was recorded before an early pair, the early call was made
\* first and set its slot, and the late call has been made after it
C1_Witness ==
    /\ Len(calls) = 2
    /\ IsEarly(calls[1].param) /\ slots[calls[1].param] # <<>>
    /\ ~IsEarly(calls[2].param) /\ registry[calls[2].param].implemented
    /\ Unwrap(KCMDLINE).params[1][1] = calls[2].param

----------------------------------------------------------------------------
(* C2: once a token equal to -- has been consumed, the parse loop appends  *)
(* every further token, unmodified, to argv and does nothing else with it: *)
(* envp and the recorded pairs stay as they are, the registry is not       *)
(* queried, nothing is printed and no slot changes.                        *)
C2_AfterSeparatorVerbatim ==
    [][ (ParseStep /\ SeparatorSeen) =>
            /\ result' = [result EXCEPT !.argv = Append(@, Arg)]
            /\ queried' = queried
            /\ console' = console
            /\ calls' = calls
            /\ slots' = slots ]_vars

\* after the separator a second --, then a token that names a registered
\* parameter with a value, both now in argv
C2_Witness ==
    /\ pc = "parse"
    /\ tokens[1] = Separator
    /\ result.argv = <<Separator, <<"f", "=", "1">>>>
    /\ result.params = <<>>

----------------------------------------------------------------------------
(* C3: a single-assignment slot is first-successful-decode-wins: after the *)
(* dispatch it holds the decoded value of the earliest occurrence of its   *)
(* parameter that decodes, it is unset when none decodes, and a slot that  *)
(* is set is never changed by a later step.                                *)
C3_FirstDecodeWins ==
    /\ [](Dispatched =>
            \A i \in 1..Len(registry) :
                registry[i].shape = "once" =>
                    LET d == Decoded(i)
                    IN  slots[i] = IF d = <<>> THEN None ELSE Some(d[1]))
    /\ [][ \A i \in 1..Len(registry) :
               (registry[i].shape = "once" /\ slots[i] # None) =>
                   slots'[i] = slots[i] ]_vars

\* f=1 f=2 (or f=1 .. f=2) has been dispatched and the slot holds "1"
C3_Witness ==
    /\ Dispatched
    /\ Len(calls) >= 2
    /\ calls[1] = [run |-> 1, param |-> 1, value |-> Some(<<"1">>)]
    /\ calls[Len(calls)] = [run |-> 1, param |-> 1, value |-> Some(<<"2">>)]
    /\ slots[1] = Some(<<"1">>)

----------------------------------------------------------------------------
(* C4: after the dispatch a multi-valued slot holds exactly the decoded    *)
(* values of the occurrences of its parameter before --, one element per   *)
(* occurrence that decodes, in command-line order.                         *)
C4_VecCollectsInOrder ==
    Dispatched =>
        \A i \in 1..Len(registry) :
            registry[i].shape = "vec" => slots[i] = Decoded(i)

\* c=2 c=x c=1: the undecodable occurrence between two decodable ones
C4_Witness ==
    /\ Dispatched
    /\ Len(calls) = 3
    /\ calls[2].value = Some(<<"x">>)
    /\ slots[2] = <<2, 1>>

----------------------------------------------------------------------------
(* The tokens before --, by the shape of their text. *)

\* the parse loop is about to consume a token that lies before the first --
KernelStep == ParseStep /\ ~SeparatorSeen /\ Arg # Separator

\* the entry of the token matches no descriptor
Unmatched(tok) == Matching(EntryOf(tok)) = {}

\* the parse loop consumes its token and goes on with the next one
Continues == pc' = "parse" /\ consumed' = consumed + 1

----------------------------------------------------------------------------
(* C5: before --, a token with exactly one = whose entry matches no        *)
(* descriptor and holds no dot appends exactly one element to envp, the    *)
(* token itself byte for byte, and leaves argv and the recorded pairs as   *)
(* they are.                                                               *)
C5_UnknownAssignmentToEnvp ==
    [][ (/\ KernelStep
         /\ CountChar(Arg, "=") = 1
         /\ Unmatched(Arg)
         /\ ~Contains(EntryOf(Arg), ".")) =>
            result' = [result EXCEPT !.envp = Append(@, Arg)] ]_vars

\* a=1 went to envp after another envp entry, nothing else was produced
C5_Witness ==
    /\ pc = "parse"
    /\ Processed = 2
    /\ result = [argv |-> <<>>, params |-> <<>>,
                 envp |-> <<<<"a", "=", "1">>, <<"a", "=", "1">>>>]

----------------------------------------------------------------------------
(* C6: before --, a token with no = whose entry matches no descriptor and  *)
(* holds no dot appends exactly one element to argv, the token, and leaves *)
(* envp and the recorded pairs as they are.                                *)
C6_UnknownBareToArgv ==
    [][ (/\ KernelStep
         /\ CountChar(Arg, "=") = 0
         /\ Unmatched(Arg)
         /\ ~Contains(Arg, ".")) =>
            result' = [result EXCEPT !.argv = Append(@, Arg)] ]_vars

\* the bare token a went to argv before any --
C6_Witness ==
    /\ pc = "parse"
    /\ Processed = 1
    /\ ~kcmdline_end
    /\ result = [argv |-> <<<<"a">>>>, params |-> <<>>, envp |-> <<>>]

----------------------------------------------------------------------------
(* C7: before --, a token with two or more = is dropped: no pair is        *)
(* recorded, the registry is not queried, no slot changes, argv and envp   *)
(* stay as they are, and the loop goes on with the next token.             *)
C7_MalformedDropped ==
    [][ (KernelStep /\ CountChar(Arg, "=") >= 2) =>
            /\ result' = result
            /\ queried' = queried
            /\ calls' = calls
            /\ slots' = slots
            /\ kcmdline_end' = kcmdline_end
            /\ Continues ]_vars

\* f=1=2, whose text before the first = is a registered name, and the
\* quoted a="=" have both been consumed and left nothing but a warning each
C7_Witness ==
    /\ pc = "parse"
    /\ Processed = 2
    /\ tokens[1] = <<"f", "=", "1", "=", "2">>
    /\ tokens[2] = <<"a", "=", "\"", "=", "\"">>
    /\ result = EmptyResult
    /\ queried = <<>>
    /\ Len(console) = 2

----------------------------------------------------------------------------
(* C8: before --, a token with at most one = whose entry matches no        *)
(* descriptor and holds a dot is dropped without a diagnostic, with or     *)
(* without a value; a dotted entry that matches a descriptor is recorded   *)
(* as a match of the first such descriptor.                                *)
C8_UnknownDottedDropped ==
    [][ (/\ KernelStep
         /\ CountChar(Arg, "=") <= 1
         /\ Contains(EntryOf(Arg), ".")) =>
            IF Unmatched(Arg)
            THEN /\ result' = result
                 /\ console' = console
                 /\ Continues
            ELSE \E i \in 1..Len(registry) :
                    /\ Selects(Arg, i)
                    /\ result' = [result EXCEPT !.params =
                                    Append(@, <<i, ValueOf(Arg)>>)] ]_vars

\* a.b=1 and a.b were dropped in silence, then m.p was recorded
C8_Witness ==
    /\ pc = "parse"
    /\ Processed = 3
    /\ tokens[1] = <<"a", ".", "b", "=", "1">>
    /\ tokens[2] = <<"a", ".", "b">>
    /\ result = [argv |-> <<>>, envp |-> <<>>, params |-> <<<<6, None>>>>]
    /\ console = <<>>

----------------------------------------------------------------------------
(* The setup calls, as the steps that make them. *)

\* the step makes a setup call
Calls == Len(calls') = Len(calls) + 1

\* the call it makes
TheCall == calls'[Len(calls')]

\* the first descriptor the entry of the token matches
FirstMatch(tok) ==
    CHOOSE i \in Matching(EntryOf(tok)) : \A j \in Matching(EntryOf(tok)) : i <= j

----------------------------------------------------------------------------
(* C9: a token before -- whose entry matches a descriptor is never added   *)
(* to argv or envp, implemented or not; when the first matching descriptor *)
(* is unimplemented and the token has at most one =, the token is recorded *)
(* for it and exactly one warning naming the entry is printed by that      *)
(* lookup; a setup call of an unimplemented descriptor changes no slot.    *)
C9_MatchedNeverForwarded ==
    [][ /\ (KernelStep /\ ~Unmatched(Arg)) =>
                /\ result'.argv = result.argv
                /\ result'.envp = result.envp
        /\ (/\ KernelStep
            /\ ~Unmatched(Arg)
            /\ CountChar(Arg, "=") <= 1
            /\ ~registry[FirstMatch(Arg)].implemented) =>
                /\ result'.params =
                      Append(result.params,
                             <<FirstMatch(Arg), ValueOf(Arg)>>)
                /\ console' =
                      Append(console, [kind |-> "unimplemented",
                                       text |-> EntryOf(Arg)])
        /\ (Calls /\ ~registry[TheCall.param].implemented) =>
                slots' = slots ]_vars

\* t f=1 t: both occurrences of the unimplemented t were consumed with a
\* warning each and called, and only the slot of f is set
C9_Witness ==
    /\ Dispatched
    /\ Len(console) = 2
    /\ Len(calls) = 3
    /\ Unwrap(KCMDLINE).params = <<<<4, None>>, <<1, Some(<<"1">>)>>, <<4, None>>>>
    /\ Unwrap(KCMDLINE).argv = <<>>
    /\ Unwrap(KCMDLINE).envp = <<>>
    /\ slots = [i \in 1..Len(registry) |-> IF i = 1 THEN Some(<<"1">>) ELSE <<>>]

----------------------------------------------------------------------------
\* the value fails to decode for the implemented descriptor i: a value-typed
\* parameter without a value, a flag parameter with one, or text the type's
\* parser rejects after trimming
DecodeFails(i, value) ==
    /\ registry[i].implemented
    /\ \/ registry[i].ty # "KernelFlag" /\ value = None
       \/ registry[i].ty = "KernelFlag" /\ value # None
       \/ /\ registry[i].ty = "u32"
          /\ value # None
          /\ ParseU32(Trim(Unwrap(value))) = None

(* C10: when a token matches an implemented descriptor and its value fails *)
(* to decode, the token is still consumed (nothing goes to argv or envp),  *)
(* its setup call leaves every slot as it is, and a later call with a      *)
(* value that decodes still sets a single-assignment slot that is unset    *)
(* and still extends a multi-valued slot.                                  *)
C10_DecodeFailureIgnored ==
    [][ /\ (/\ KernelStep
            /\ ~Unmatched(Arg)
            /\ CountChar(Arg, "=") <= 1
            /\ DecodeFails(FirstMatch(Arg), ValueOf(Arg))) =>
                /\ result'.argv = result.argv
                /\ result'.envp = result.envp
        /\ (Calls /\ DecodeFails(TheCall.param, TheCall.value)) =>
                slots' = slots
        /\ (/\ Calls
            /\ registry[TheCall.param].implemented
            /\ ~DecodeFails(TheCall.param, TheCall.value)) =>
                LET i == TheCall.param
                IN  /\ (registry[i].shape = "once" /\ slots[i] = None) =>
                           slots'[i] # None
                    /\ registry[i].shape = "vec" =>
                           Len(slots'[i]) = Len(slots[i]) + 1 ]_vars

\* d=1 c=x d: the flag given a value and the number given x were consumed
\* and stored nothing, the later bare d set the flag
C10_Witness ==
    /\ Dispatched
    /\ Unwrap(KCMDLINE) =
          [argv |-> <<>>, envp |-> <<>>,
           params |-> <<<<3, Some(<<"1">>)>>, <<2, Some(<<"x">>)>>, <<3, None>>>>]
    /\ Len(calls) = 3
    /\ slots = [i \in 1..Len(registry) |-> IF i = 3 THEN Some("KernelFlag") ELSE <<>>]

----------------------------------------------------------------------------
(* The tokens of a text, said by positions. *)

\* the quote characters among the first n characters of the text
QuotesUpTo(s, n) == Cardinality({j \in 1..n : s[j] = "\""})

\* the whitespace characters outside a quoted span: an even number of
\* quote characters lies before them
SplitPoints(s) ==
    {i \in 1..Len(s) : IsWhitespace(s[i]) /\ QuotesUpTo(s, i) % 2 = 0}

\* the k-th position of the set in ascending order
Nth(S, k) == CHOOSE x \in S : Cardinality({y \in S : y < x}) = k - 1

\* the pieces of the text between 0, the positions of the set and
\* Len(s) + 1, in the order of the text
PiecesBetween(s, S) ==
    LET B == S \cup {0, Len(s) + 1}
    IN  [k \in 1..(Cardinality(S) + 1) |->
            SubSeq(s, Nth(B, k) + 1, Nth(B, k + 1) - 1)]

\* split_arg has run
Tokenized == pc # "idle" \/ runs > 0

(* C11: the tokens are the pieces of the command line between the          *)
(* whitespace characters that lie outside a double-quoted span, in input   *)
(* order, where a span opens and closes at every quote character counted   *)
(* from the start of the line; whitespace inside a span stays in its       *)
(* token and the quote characters are kept.                                *)
C11_SplitsOutsideQuotes ==
    Tokenized => tokens = PiecesBetween(cmdline, SplitPoints(cmdline))

\* d "f d" f gives the three tokens d, "f d" and f
C11_Witness ==
    /\ Tokenized
    /\ tokens = << <<"d">>, <<"\"", "f", " ", "d", "\"">>, <<"f">> >>

----------------------------------------------------------------------------
(* C12: for every command line, parsing and dispatch never abort: no       *)
(* state is reached where the kernel has panicked.                         *)
C12_NeverAborts == pc # "panicked"

----------------------------------------------------------------------------
(* The registered names, said by their text. *)

\* the registered name of descriptor i without one trailing =
Stem(i) ==
    LET n == registry[i].name
    IN  IF n # <<>> /\ n[Len(n)] = "=" THEN SubSeq(n, 1, Len(n) - 1) ELSE n

\* an earlier descriptor of the registry has the same name without the =
Shadowed(i) == \E j \in 1..(i - 1) : Stem(j) = Stem(i)

(* C13: a token before -- with at most one = is looked up by its entry     *)
(* alone, with or without a value: it is recorded for the first descriptor *)
(* in registry order whose name without one trailing = is the entry, and   *)
(* for none when there is no such descriptor.  A descriptor that shares    *)
(* that name with an earlier one is never recorded, its setup is never     *)
(* called and its slot stays unset.                                        *)
C13_FirstNormalizedMatch ==
    /\ [][ (KernelStep /\ CountChar(Arg, "=") <= 1) =>
              LET hits == {i \in 1..Len(registry) : Stem(i) = EntryOf(Arg)}
              IN  /\ queried' = Append(queried, EntryOf(Arg))
                  /\ IF hits = {}
                     THEN result'.params = result.params
                     ELSE \E i \in hits :
                             /\ \A j \in hits : i <= j
                             /\ result'.params =
                                   Append(result.params, <<i, ValueOf(Arg)>>)
          ]_vars
    /\ [](\A i \in 1..Len(registry) :
              Shadowed(i) =>
                  /\ \A k \in 1..Len(result.params) : result.params[k][1] # i
                  /\ \A k \in 1..Len(calls) : calls[k].param # i
                  /\ slots[i] = None)

\* f d=1 f=2: the bare f and f=2 were recorded for the value-taking
\* descriptor f=, the first of the two named f, and d=1 for the flag d;
\* the three calls were made and the second descriptor named f has no call
C13_Witness ==
    /\ Dispatched
    /\ Unwrap(KCMDLINE).params =
          << <<1, None>>, <<3, Some(<<"1">>)>>, <<1, Some(<<"2">>)>> >>
    /\ Len(calls) = 3
    /\ Shadowed(5)
    /\ slots[5] = None

----------------------------------------------------------------------------
(* What the parse has produced so far. *)

\* the elements in the recorded pairs, argv and envp together
Produced(res) == Len(res.params) + Len(res.argv) + Len(res.envp)

\* the token is the first -- of the line, a token before it with two or
\* more =, or one whose entry holds a dot and matches no descriptor
Discarded ==
    /\ ParseStep
    /\ ~SeparatorSeen
    /\ \/ Arg = Separator
       \/ CountChar(Arg, "=") >= 2
       \/ Contains(EntryOf(Arg), ".") /\ Unmatched(Arg)

\* the sequence t is the sequence s with at most one element appended
ExtendsByAtMostOne(s, t) ==
    /\ Len(t) \in {Len(s), Len(s) + 1}
    /\ SubSeq(t, 1, Len(s)) = s

(* C14: a step of the parse loop on one token adds at most one element to  *)
(* the recorded pairs, argv and envp taken together, appended at the end   *)
(* of its sequence, and touches no element already there; the first --, a  *)
(* malformed token and an unknown dotted token add nothing.  So after any  *)
(* prefix of k tokens the three sequences hold at most k elements.         *)
C14_AtMostOneContribution ==
    /\ [][ ParseStep =>
              /\ ExtendsByAtMostOne(result.params, result'.params)
              /\ ExtendsByAtMostOne(result.argv, result'.argv)
              /\ ExtendsByAtMostOne(result.envp, result'.envp)
              /\ Produced(result') - Produced(result) \in {0, 1}
              /\ Discarded => result' = result ]_vars
    /\ [](pc = "parse" => Produced(result) <= Processed)

\* a a.b a=1 has been consumed: a went to argv, a=1 to envp and the
\* unknown dotted a.b nowhere
C14_Witness ==
    /\ pc = "parse"
    /\ Processed = 3
    /\ Produced(result) = 2
    /\ tokens = << <<"a">>, <<"a", ".", "b">>, <<"a", "=", "1">> >>
    /\ result = [argv |-> << <<"a">> >>, params |-> <<>>,
                 envp |-> << <<"a", "=", "1">> >>]

----------------------------------------------------------------------------
(* Which tokens are forwarded, said by the text of the line. *)

\* a -- is among the first n tokens of ts
SeparatorWithin(ts, n) == \E k \in 1..n : ts[k] = Separator

\* the n-th token of ts is one that goes to argv: any token after the
\* first --, and before it a token without = and without a dot whose entry
\* matches no descriptor
GoesToArgv(ts, n) ==
    IF SeparatorWithin(ts, n - 1) THEN TRUE
    ELSE /\ ts[n] # Separator
         /\ CountChar(ts[n], "=") = 0
         /\ ~Contains(ts[n], ".")
         /\ Unmatched(ts[n])

\* the n-th token of ts is one that goes to envp
GoesToEnvp(ts, n) ==
    /\ ~SeparatorWithin(ts, n)
    /\ CountChar(ts[n], "=") = 1
    /\ ~Contains(EntryOf(ts[n]), ".")
    /\ Unmatched(ts[n])

\* those of the first n tokens of ts that go to argv, in the order of ts,
\* each as often as it occurs
RECURSIVE ArgvOf(_, _)
ArgvOf(ts, n) ==
    IF n = 0 THEN <<>>
    ELSE ArgvOf(ts, n - 1) \o (IF GoesToArgv(ts, n) THEN <<ts[n]>> ELSE <<>>)

RECURSIVE EnvpOf(_, _)
EnvpOf(ts, n) ==
    IF n = 0 THEN <<>>
    ELSE EnvpOf(ts, n - 1) \o (IF GoesToEnvp(ts, n) THEN <<ts[n]>> ELSE <<>>)

\* the sequence s is an initial part of the sequence t
IsPrefix(s, t) == Len(s) <= Len(t) /\ SubSeq(t, 1, Len(s)) = s

(* C15: argv and envp only grow at the end: no step removes, reorders or   *)
(* rewrites an element.  While the line is parsed, and in the stored       *)
(* result, argv is the sequence of the consumed tokens that go to argv and *)
(* envp the sequence of those that go to envp, in command-line order and   *)
(* one element per occurrence; so a repeated token gives repeated elements *)
(* and the argv elements of bare tokens before -- come before those of the *)
(* tokens after --.                                                        *)
C15_AppendOnlyInOrder ==
    /\ [][ /\ IsPrefix(result.argv, result'.argv)
           /\ IsPrefix(result.envp, result'.envp) ]_vars
    /\ [](Tokenized =>
              /\ result.argv = ArgvOf(tokens, consumed)
              /\ result.envp = EnvpOf(tokens, consumed))
    /\ [](KCMDLINE # None =>
              /\ Unwrap(KCMDLINE).argv = ArgvOf(tokens, Len(tokens))
              /\ Unwrap(KCMDLINE).envp = EnvpOf(tokens, Len(tokens)))

\* a -- a: the bare a before the separator and the a after it are both in
\* the stored argv, the earlier first
C15_Witness ==
    /\ Dispatched
    /\ tokens = << <<"a">>, Separator, <<"a">> >>
    /\ Unwrap(KCMDLINE).argv = << <<"a">>, <<"a">> >>
    /\ Unwrap(KCMDLINE).envp = <<>>

----------------------------------------------------------------------------
(* The setup calls of one run of init. *)

\* the pairs the calls of run r were made with, in the order of the calls
CallsOfRun(r) ==
    LET cs == SelectSeq(calls, LAMBDA c : c.run = r)
    IN  [k \in 1..Len(cs) |-> <<cs[k].param, cs[k].value>>]

\* those pairs of a sequence whose descriptor is early, and those whose
\* descriptor is late
EarlyOf(ps) == SelectSeq(ps, LAMBDA p : IsEarly(p[1]))

LateOf(ps) == SelectSeq(ps, LAMBDA p : ~IsEarly(p[1]))

(* C16: a setup call is made only when every token of the command line has *)
(* been consumed and the parsed result is stored; and when a run of init   *)
(* is over it has made one call per recorded pair: the calls of the run    *)
(* with an early descriptor are the recorded early pairs in the order      *)
(* recorded, the calls with a late descriptor the recorded late pairs in   *)
(* the order recorded, and there are no other calls.                       *)
C16_DispatchAfterParse ==
    /\ [][ Calls => /\ KCMDLINE # None
                    /\ KCMDLINE' = KCMDLINE
                    /\ consumed = Len(tokens)
                    /\ result' = result
                    /\ Unwrap(KCMDLINE) = result ]_vars
    /\ [](calls # <<>> => KCMDLINE # None /\ consumed = Len(tokens))
    /\ [](pc = "idle" =>
              \A r \in 1..runs :
                  LET made == CallsOfRun(r)
                      recorded == Unwrap(KCMDLINE).params
                  IN  /\ Len(made) = Len(recorded)
                      /\ EarlyOf(made) = EarlyOf(recorded)
                      /\ LateOf(made) = LateOf(recorded))

\* three recorded pairs, two different ones of one group around one of the
\* other group, and the run has made its three calls
C16_Witness ==
    /\ Dispatched
    /\ Len(calls) = 3
    /\ LET recorded == Unwrap(KCMDLINE).params
       IN  /\ Len(recorded) = 3
           /\ IsEarly(recorded[1][1]) = IsEarly(recorded[3][1])
           /\ IsEarly(recorded[1][1]) # IsEarly(recorded[2][1])
           /\ recorded[1] # recorded[3]

----------------------------------------------------------------------------
(* C17: however often init is invoked, the command line is split and       *)
(* parsed at most once, in the first invocation: the parse is entered only *)
(* while the singleton is unset and no invocation has completed, and once  *)
(* the singleton is set, it (its argv, envp and recorded pairs), the       *)
(* tokens and the parse state never change again.                          *)
C17_ParsedOnce ==
    /\ [][ /\ (pc # "parse" /\ pc' = "parse") => (KCMDLINE = None /\ runs = 0)
           /\ KCMDLINE # None =>
                  /\ KCMDLINE' = KCMDLINE
                  /\ pc' # "parse"
                  /\ UNCHANGED <<tokens, consumed, kcmdline_end, result,
                                 console, queried>> ]_vars
    /\ [](runs >= 1 => KCMDLINE # None /\ Unwrap(KCMDLINE) = result)

\* the second invocation of init has returned: the singleton holds an
\* argv entry and two recorded pairs, the registry was queried three times
\* in all and each pair was called twice
C17_Witness ==
    /\ pc = "idle"
    /\ runs = 2
    /\ Unwrap(KCMDLINE).argv # <<>>
    /\ Len(Unwrap(KCMDLINE).params) = 2
    /\ Len(queried) = 3
    /\ Len(calls) = 4

----------------------------------------------------------------------------
\* n copies of the sequence s, one after the other
RECURSIVE Copies(_, _)
Copies(s, n) == IF n = 0 THEN <<>> ELSE s \o Copies(s, n - 1)

(* C20: a further run of init makes the calls of the first run again, the  *)
(* same pairs in the same order; it leaves every single-assignment slot at *)
(* the value it had after the first run, and appends to every multi-valued *)
(* slot its decoded values once more, so that after n runs the slot holds  *)
(* n copies, one after the other, of what it held after one run.           *)
C20_RerunRepeatsCalls ==
    /\ [](pc = "idle" =>
              /\ \A r \in 1..runs : CallsOfRun(r) = CallsOfRun(1)
              /\ \A i \in 1..Len(registry) :
                     /\ registry[i].shape = "vec" =>
                            slots[i] = Copies(Decoded(i), runs)
                     /\ (registry[i].shape = "once" /\ runs >= 1) =>
                            slots[i] = ExpectedSlot(i))
    /\ [][ runs >= 1 =>
              \A i \in 1..Len(registry) :
                  registry[i].shape = "once" => slots'[i] = slots[i] ]_vars

\* c=1 f=.. c=2 after two runs: the multi-valued slot holds 1, 2, 1, 2 and
\* the single-assignment slot the value of the first run
C20_Witness ==
    /\ pc = "idle"
    /\ runs = 2
    /\ Len(calls) = 6
    /\ slots[2] = <<1, 2, 1, 2>>
    /\ slots[1] # None

----------------------------------------------------------------------------
\* no descriptor of the registry has the empty name
NoEmptyName == \A i \in 1..Len(registry) : Stem(i) # <<>>

(* C18: the tokenizer yields one token more than there are whitespace      *)
(* characters outside quoted spans, so the empty command line gives one    *)
(* empty token and whitespace at the start, at the end or next to other    *)
(* whitespace gives empty tokens.  An empty token before -- is looked up   *)
(* as a bare entry and, no descriptor having the empty name, appended to   *)
(* argv as the empty string; an empty token after -- is appended to argv   *)
(* as the empty string.                                                    *)
C18_EmptyTokens ==
    /\ [](Tokenized =>
              /\ Len(tokens) = Cardinality(SplitPoints(cmdline)) + 1
              /\ \A p \in SplitPoints(cmdline) :
                     (p = 1 \/ p - 1 \in SplitPoints(cmdline)) =>
                         \E k \in 1..Len(tokens) : tokens[k] = <<>>
              /\ (cmdline # <<>> /\ Len(cmdline) \in SplitPoints(cmdline)) =>
                     tokens[Len(tokens)] = <<>>
              /\ cmdline = <<>> => tokens = << <<>> >>)
    /\ [][ (ParseStep /\ Arg = <<>> /\ NoEmptyName) =>
              /\ result' = [result EXCEPT !.argv = Append(@, <<>>)]
              /\ queried' = IF SeparatorSeen THEN queried
                                             ELSE Append(queried, <<>>)
              /\ console' = console
              /\ Continues ]_vars

\* the line " -- ": an empty token before the separator and one after it,
\* both in the stored argv
C18_Witness ==
    /\ Dispatched
    /\ NoEmptyName
    /\ cmdline = <<" ", "-", "-", " ">>
    /\ tokens = << <<>>, Separator, <<>> >>
    /\ Unwrap(KCMDLINE) = [argv |-> << <<>>, <<>> >>, envp |-> <<>>,
                            params |-> <<>>]

----------------------------------------------------------------------------
(* A quote that is never closed. *)

\* the command line holds an odd number of quote characters
OddQuotes == QuotesUpTo(cmdline, Len(cmdline)) % 2 = 1

\* the position of its last quote character
LastQuote ==
    CHOOSE q \in 1..Len(cmdline) :
        /\ cmdline[q] = "\""
        /\ \A j \in (q + 1)..Len(cmdline) : cmdline[j] # "\""

\* the command line from its last quote character to its end
OpenTail == SubSeq(cmdline, LastQuote, Len(cmdline))

\* the sequence s ends with the sequence t
HasSuffix(s, t) ==
    Len(t) <= Len(s) /\ SubSeq(s, Len(s) - Len(t) + 1, Len(s)) = t

(* C19: when the command line holds an odd number of quote characters, no  *)
(* split happens after the last of them: the last token ends with          *)
(* everything from that quote to the end of the line, whitespace and any   *)
(* -- in it included, and there are no more tokens than the whitespace     *)
(* before that quote allows.  The last token is therefore not --, and the  *)
(* parse is in process-argument mode only when a consumed token before the *)
(* last one is --, never because of a -- after the unclosed quote.         *)
C19_UnclosedQuoteSwallowsRest ==
    (Tokenized /\ OddQuotes) =>
        LET last == tokens[Len(tokens)]
        IN  /\ HasSuffix(last, OpenTail)
            /\ Len(tokens) <=
                  1 + Cardinality({i \in 1..(LastQuote - 1) :
                                      IsWhitespace(cmdline[i])})
            /\ last # Separator
            /\ kcmdline_end =>
                   \E k \in 1..(Len(tokens) - 1) :
                       k <= consumed /\ tokens[k] = Separator

\* d "f -- d: the text from the quote on is one token, which went to argv
\* as a bare kernel-side entry; the -- in it did not end the kernel part
C19_Witness ==
    /\ Dispatched
    /\ cmdline = <<"d", " ", "\"", "f", " ", "-", "-", " ", "d">>
    /\ tokens = << <<"d">>, <<"\"", "f", " ", "-", "-", " ", "d">> >>
    /\ ~kcmdline_end
    /\ Unwrap(KCMDLINE) =
          [argv |-> << <<"\"", "f", " ", "-", "-", " ", "d">> >>,
           envp |-> <<>>, params |-> << <<3, None>> >>]

====
